---- MODULE Spec2Model ----
(***************************************************************************)
(* BusFeed route service (frontend/src/services/api.js, "Serviço de        *)
(* Rotas"): calculateRoutes and the helpers it calls.                      *)
(*                                                                         *)
(* Encoding of JavaScript values                                           *)
(*  - an object is a record; a property the object does not have is a      *)
(*    field the record does not have ("coordinates" \in DOMAIN stop);      *)
(*  - null is the record Null; an exception is the record Throw, a normal  *)
(*    return of v is Ok(v);                                                *)
(*  - coordinates are <<lat, lng>>.  All points lie on one meridian        *)
(*    (lng = 0) and lat is given in metres of arc, so that the haversine   *)
(*    formula (Δλ = 0 gives a = sin²(Δφ/2), c = |Δφ|, R·c) is the absolute *)
(*    difference of the two latitudes; floating point rounding is not      *)
(*    modelled;                                                            *)
(*  - line codes '0.ddd' are the integers ddd (lexical order of the codes  *)
(*    is the order of the integers); fares are in centavos.                *)
(***************************************************************************)
EXTENDS Integers, Sequences, FiniteSets, TLC

\* ------------------------------------------------------------------ bounds
MaxStops == 3

\* the longest catalog in the specifications of the callers of
\* calculateRoutes (SpecCallers, SpecRotas)
MaxCallerStops == 2

\* ------------------------------------------------------- JavaScript values
Null == [isNull |-> TRUE]
Throw == [threw |-> TRUE]
Ok(v) == [threw |-> FALSE, value |-> v]
Undefined == <<>>

Has(obj, field) == field \in DOMAIN obj
Coordinates(obj) == IF Has(obj, "coordinates") THEN obj.coordinates ELSE Undefined

Abs(x) == IF x < 0 THEN -x ELSE x
Max(a, b) == IF a >= b THEN a ELSE b
Min(a, b) == IF a <= b THEN a ELSE b
\* Math.ceil(n / d) and Math.round(n / d) for n >= 0, d > 0
MathCeil(n, d) == (n + d - 1) \div d
MathRound(n, d) == (2 * n + d) \div (2 * d)

\* Array.prototype.sort with comparator (a, b) => key(a) - key(b), where
\* keys[i] is the key of s[i]: ascending and stable
StableSort(s, keys) ==
  LET n == Len(s)
      rank(i) == Cardinality({j \in 1..n : \/ keys[j] < keys[i]
                                           \/ keys[j] = keys[i] /\ j < i}) + 1
  IN [p \in 1..n |-> s[CHOOSE i \in 1..n : rank(i) = p]]

\* ------------------------------------------------------------- constants
WalkingSpeed == 80
BusSpeed == 300
SearchRadius == 3000
SearchLimit == 10
FictitiousLine == 999
ExampleLine == 111
SingleFare == 450
TransferFare == 900

\* ------------------------------------------------------------ the helpers
calculateDistance(coord1, coord2) == Abs(coord2[1] - coord1[1])

\* findNearbyStops cutting the list to limit before sorting it
findNearbyStopsSliceFirst(coordinates, stops, maxDistance, limit) ==
  IF stops = <<>> THEN Ok(<<>>)
  ELSE IF coordinates = Undefined \/ \E i \in 1..Len(stops) : ~Has(stops[i], "coordinates")
  THEN Throw
  ELSE LET mapped == [i \in 1..Len(stops) |->
                        [distance |-> calculateDistance(coordinates, stops[i].coordinates)] @@ stops[i]]
           filtered == SelectSeq(mapped, LAMBDA stop : stop.distance <= maxDistance)
           sliced == SubSeq(filtered, 1, Min(limit, Len(filtered)))
       IN Ok(StableSort(sliced, [i \in 1..Len(sliced) |-> sliced[i].distance]))

findNearbyStops(coordinates, stops, maxDistance, limit) ==
  IF stops = <<>> THEN Ok(<<>>)
  ELSE IF coordinates = Undefined \/ \E i \in 1..Len(stops) : ~Has(stops[i], "coordinates")
  THEN Throw
  ELSE LET mapped == [i \in 1..Len(stops) |->
                        [distance |-> calculateDistance(coordinates, stops[i].coordinates)] @@ stops[i]]
           filtered == SelectSeq(mapped, LAMBDA stop : stop.distance <= maxDistance)
           sorted == StableSort(filtered, [i \in 1..Len(filtered) |-> filtered[i].distance])
       IN Ok(SubSeq(sorted, 1, Min(limit, Len(sorted))))

\* findNearbyStops with the distance written into the stops of busStops
\* themselves (stop.distance = ...) instead of into copies
NearbyAnnotatesInPlace(coordinates, stops, maxDistance, limit) ==
  IF coordinates = Undefined \/ \E i \in 1..Len(stops) : ~Has(stops[i], "coordinates")
  THEN stops
  ELSE [i \in 1..Len(stops) |->
          [distance |-> calculateDistance(coordinates, stops[i].coordinates)] @@ stops[i]]

\* findNearbyStops dropping the stops beyond maxDistance from busStops itself
NearbyFiltersInPlace(coordinates, stops, maxDistance, limit) ==
  IF coordinates = Undefined \/ \E i \in 1..Len(stops) : ~Has(stops[i], "coordinates")
  THEN stops
  ELSE SelectSeq(stops, LAMBDA stop : calculateDistance(coordinates, stop.coordinates) <= maxDistance)

\* findNearbyStops sorting busStops itself by distance and cutting it to limit
NearbySortsInPlace(coordinates, stops, maxDistance, limit) ==
  IF coordinates = Undefined \/ \E i \in 1..Len(stops) : ~Has(stops[i], "coordinates")
  THEN stops
  ELSE LET sorted == StableSort(stops, [i \in 1..Len(stops) |->
                                          calculateDistance(coordinates, stops[i].coordinates)])
       IN SubSeq(sorted, 1, Min(limit, Len(sorted)))

\* the array busStops after findNearbyStops ran on it: map builds a new
\* array of copies ({...stop, distance}), filter and slice build new arrays,
\* and sort sorts the array filter built; busStops and its stops are not
\* written
busStopsAfterNearby(coordinates, stops, maxDistance, limit) == stops

Includes(seq, x) == \E i \in 1..Len(seq) : seq[i] = x

\* findConnectingLines without the fictitious line: the common lines, empty
\* when there is none
findConnectingLinesCommonOnly(originStop, destinationStop) ==
  IF ~Has(originStop, "lines") THEN Throw
  ELSE IF originStop.lines # <<>> /\ ~Has(destinationStop, "lines") THEN Throw
  ELSE Ok(SelectSeq(originStop.lines, LAMBDA line : Includes(destinationStop.lines, line)))

findConnectingLines(originStop, destinationStop) ==
  IF ~Has(originStop, "lines") THEN Throw
  ELSE IF originStop.lines # <<>> /\ ~Has(destinationStop, "lines") THEN Throw
  ELSE LET commonLines == SelectSeq(originStop.lines,
                                    LAMBDA line : Includes(destinationStop.lines, line))
       IN IF Len(commonLines) = 0 THEN Ok(<<FictitiousLine>>) ELSE Ok(commonLines)

calculateWalkingTime(distance) == MathCeil(distance, WalkingSpeed)

calculateBusTime(distance) == MathCeil(distance, BusSpeed)

estimateStopCount(originStop, destinationStop) ==
  Max(2, MathRound(calculateDistance(originStop.coordinates, destinationStop.coordinates), 500))

\* ------------------------------------------------------- the route builders
\* DirectRouteFor with acessibilidade taken from the origin stop alone
DirectRouteOriginAccessibility(originLocation, destinationLocation, originStop, destinationStop, connectingLines) ==
  LET busDistance == calculateDistance(originStop.coordinates, destinationStop.coordinates)
      walkToStopDistance == originStop.distance
      walkFromStopDistance == destinationStop.distance
      walkToStopTime == calculateWalkingTime(walkToStopDistance)
      busTime == calculateBusTime(busDistance)
      walkFromStopTime == calculateWalkingTime(walkFromStopDistance)
      waitTime == IF Has(originStop, "type") /\ originStop.type = "main" THEN 8 ELSE 12
  IN [origem |-> originLocation,
      destino |-> destinationLocation,
      tempo_total |-> walkToStopTime + busTime + walkFromStopTime + waitTime,
      distancia_total |-> walkToStopDistance + busDistance + walkFromStopDistance,
      transferencias |-> 0,
      custo_total |-> SingleFare,
      acessibilidade |-> originStop.accessibility,
      segmentos |-> << [linha |-> connectingLines[1],
                        paradaOrigem |-> originStop,
                        paradaDestino |-> destinationStop,
                        tempo |-> busTime,
                        paradas |-> estimateStopCount(originStop, destinationStop),
                        caminhadaInicial |-> IF walkToStopDistance > 50
                                             THEN [distancia |-> walkToStopDistance, tempo |-> walkToStopTime]
                                             ELSE Null,
                        caminhadaFinal |-> IF walkFromStopDistance > 50
                                           THEN [distancia |-> walkFromStopDistance, tempo |-> walkFromStopTime]
                                           ELSE Null] >>,
      observacoes |-> <<>>]

\* DirectRouteFor with the 12 minute wait whatever the type of the origin stop
DirectRouteFlatWait(originLocation, destinationLocation, originStop, destinationStop, connectingLines) ==
  LET busDistance == calculateDistance(originStop.coordinates, destinationStop.coordinates)
      walkToStopDistance == originStop.distance
      walkFromStopDistance == destinationStop.distance
      walkToStopTime == calculateWalkingTime(walkToStopDistance)
      busTime == calculateBusTime(busDistance)
      walkFromStopTime == calculateWalkingTime(walkFromStopDistance)
      waitTime == 12
      totalTime == walkToStopTime + busTime + walkFromStopTime + waitTime
      totalDistance == walkToStopDistance + busDistance + walkFromStopDistance
      stopCount == estimateStopCount(originStop, destinationStop)
  IN [origem |-> originLocation,
      destino |-> destinationLocation,
      tempo_total |-> totalTime,
      distancia_total |-> totalDistance,
      transferencias |-> 0,
      custo_total |-> SingleFare,
      acessibilidade |-> originStop.accessibility /\ destinationStop.accessibility,
      segmentos |-> << [linha |-> connectingLines[1],
                        paradaOrigem |-> originStop,
                        paradaDestino |-> destinationStop,
                        tempo |-> busTime,
                        paradas |-> stopCount,
                        caminhadaInicial |-> IF walkToStopDistance > 50
                                             THEN [distancia |-> walkToStopDistance, tempo |-> walkToStopTime]
                                             ELSE Null,
                        caminhadaFinal |-> IF walkFromStopDistance > 50
                                           THEN [distancia |-> walkFromStopDistance, tempo |-> walkFromStopTime]
                                           ELSE Null] >>,
      observacoes |-> <<>>]

DirectRouteFor(originLocation, destinationLocation, originStop, destinationStop, connectingLines) ==
  LET busDistance == calculateDistance(originStop.coordinates, destinationStop.coordinates)
      walkToStopDistance == originStop.distance
      walkFromStopDistance == destinationStop.distance
      walkToStopTime == calculateWalkingTime(walkToStopDistance)
      busTime == calculateBusTime(busDistance)
      walkFromStopTime == calculateWalkingTime(walkFromStopDistance)
      waitTime == IF Has(originStop, "type") /\ originStop.type = "main" THEN 8 ELSE 12
      totalTime == walkToStopTime + busTime + walkFromStopTime + waitTime
      totalDistance == walkToStopDistance + busDistance + walkFromStopDistance
      stopCount == estimateStopCount(originStop, destinationStop)
  IN [origem |-> originLocation,
      destino |-> destinationLocation,
      tempo_total |-> totalTime,
      distancia_total |-> totalDistance,
      transferencias |-> 0,
      custo_total |-> SingleFare,
      acessibilidade |-> originStop.accessibility /\ destinationStop.accessibility,
      segmentos |-> << [linha |-> connectingLines[1],
                        paradaOrigem |-> originStop,
                        paradaDestino |-> destinationStop,
                        tempo |-> busTime,
                        paradas |-> stopCount,
                        caminhadaInicial |-> IF walkToStopDistance > 50
                                             THEN [distancia |-> walkToStopDistance, tempo |-> walkToStopTime]
                                             ELSE Null,
                        caminhadaFinal |-> IF walkFromStopDistance > 50
                                           THEN [distancia |-> walkFromStopDistance, tempo |-> walkFromStopTime]
                                           ELSE Null] >>,
      observacoes |-> <<>>]

\* the nested for-of loops of calculateDirectRoute, pair k of the row-major
\* enumeration of nearbyOriginStops x nearbyDestinationStops; the result is
\* the route, Null when the loops run out, or Throw
RECURSIVE DirectSearch(_, _, _, _, _)
DirectSearch(originLocation, destinationLocation, nearbyOriginStops, nearbyDestinationStops, k) ==
  LET m == Len(nearbyDestinationStops)
  IN IF m = 0 \/ k > Len(nearbyOriginStops) * m THEN Null
     ELSE LET originStop == nearbyOriginStops[((k - 1) \div m) + 1]
              destinationStop == nearbyDestinationStops[((k - 1) % m) + 1]
              connectingLines == findConnectingLines(originStop, destinationStop)
          IN IF connectingLines.threw THEN Throw
             ELSE IF Len(connectingLines.value) > 0
             THEN DirectRouteFor(originLocation, destinationLocation,
                                 originStop, destinationStop, connectingLines.value)
             ELSE DirectSearch(originLocation, destinationLocation,
                               nearbyOriginStops, nearbyDestinationStops, k + 1)

calculateDirectRoute(originLocation, destinationLocation, stops) ==
  LET nearbyOriginStops == findNearbyStops(Coordinates(originLocation), stops, SearchRadius, SearchLimit)
  IN IF nearbyOriginStops.threw THEN Throw
     ELSE LET nearbyDestinationStops ==
                findNearbyStops(Coordinates(destinationLocation), stops, SearchRadius, SearchLimit)
          IN IF nearbyDestinationStops.threw THEN Throw
             ELSE DirectSearch(originLocation, destinationLocation,
                               nearbyOriginStops.value, nearbyDestinationStops.value, 1)

\* TransferRouteFor with the 12 minute wait counted at each boarding
TransferRouteWaitTwice(originLocation, destinationLocation, originStop, terminalStop, destinationStop, firstLeg, secondLeg) ==
  LET leg1Distance == calculateDistance(originStop.coordinates, terminalStop.coordinates)
      leg2Distance == calculateDistance(terminalStop.coordinates, destinationStop.coordinates)
      walkToStopDistance == originStop.distance
      walkFromStopDistance == destinationStop.distance
      walkToStopTime == calculateWalkingTime(walkToStopDistance)
      leg1Time == calculateBusTime(leg1Distance)
      transferTime == 15
      leg2Time == calculateBusTime(leg2Distance)
      walkFromStopTime == calculateWalkingTime(walkFromStopDistance)
      totalTime == walkToStopTime + leg1Time + transferTime + leg2Time + walkFromStopTime + 12 + 12
      totalDistance == walkToStopDistance + leg1Distance + leg2Distance + walkFromStopDistance
  IN [origem |-> originLocation,
      destino |-> destinationLocation,
      tempo_total |-> totalTime,
      distancia_total |-> totalDistance,
      transferencias |-> 1,
      custo_total |-> TransferFare,
      acessibilidade |-> originStop.accessibility /\ terminalStop.accessibility
                           /\ destinationStop.accessibility,
      segmentos |-> << [linha |-> firstLeg[1],
                        paradaOrigem |-> originStop,
                        paradaDestino |-> terminalStop,
                        tempo |-> leg1Time,
                        paradas |-> estimateStopCount(originStop, terminalStop),
                        caminhadaInicial |-> IF walkToStopDistance > 50
                                             THEN [distancia |-> walkToStopDistance, tempo |-> walkToStopTime]
                                             ELSE Null],
                       [linha |-> secondLeg[1],
                        paradaOrigem |-> terminalStop,
                        paradaDestino |-> destinationStop,
                        tempo |-> leg2Time,
                        paradas |-> estimateStopCount(terminalStop, destinationStop),
                        caminhadaFinal |-> IF walkFromStopDistance > 50
                                           THEN [distancia |-> walkFromStopDistance, tempo |-> walkFromStopTime]
                                           ELSE Null] >>,
      observacoes |-> << <<"Baldeacao em", terminalStop.name>>,
                         <<"Aguarde o proximo onibus no mesmo terminal">> >>]

TransferRouteFor(originLocation, destinationLocation, originStop, terminalStop, destinationStop, firstLeg, secondLeg) ==
  LET leg1Distance == calculateDistance(originStop.coordinates, terminalStop.coordinates)
      leg2Distance == calculateDistance(terminalStop.coordinates, destinationStop.coordinates)
      walkToStopDistance == originStop.distance
      walkFromStopDistance == destinationStop.distance
      walkToStopTime == calculateWalkingTime(walkToStopDistance)
      leg1Time == calculateBusTime(leg1Distance)
      transferTime == 15
      leg2Time == calculateBusTime(leg2Distance)
      walkFromStopTime == calculateWalkingTime(walkFromStopDistance)
      totalTime == walkToStopTime + leg1Time + transferTime + leg2Time + walkFromStopTime + 12
      totalDistance == walkToStopDistance + leg1Distance + leg2Distance + walkFromStopDistance
  IN [origem |-> originLocation,
      destino |-> destinationLocation,
      tempo_total |-> totalTime,
      distancia_total |-> totalDistance,
      transferencias |-> 1,
      custo_total |-> TransferFare,
      acessibilidade |-> originStop.accessibility /\ terminalStop.accessibility
                           /\ destinationStop.accessibility,
      segmentos |-> << [linha |-> firstLeg[1],
                        paradaOrigem |-> originStop,
                        paradaDestino |-> terminalStop,
                        tempo |-> leg1Time,
                        paradas |-> estimateStopCount(originStop, terminalStop),
                        caminhadaInicial |-> IF walkToStopDistance > 50
                                             THEN [distancia |-> walkToStopDistance, tempo |-> walkToStopTime]
                                             ELSE Null],
                       [linha |-> secondLeg[1],
                        paradaOrigem |-> terminalStop,
                        paradaDestino |-> destinationStop,
                        tempo |-> leg2Time,
                        paradas |-> estimateStopCount(terminalStop, destinationStop),
                        caminhadaFinal |-> IF walkFromStopDistance > 50
                                           THEN [distancia |-> walkFromStopDistance, tempo |-> walkFromStopTime]
                                           ELSE Null] >>,
      observacoes |-> << <<"Baldeacao em", terminalStop.name>>,
                         <<"Aguarde o proximo onibus no mesmo terminal">> >>]

\* busStops.filter(stop => stop.type === 'main' && stop.lines.length >= 4):
\* the length of a missing lines array throws, for a 'main' stop only
TerminalStops(stops) ==
  IF \E i \in 1..Len(stops) :
       Has(stops[i], "type") /\ stops[i].type = "main" /\ ~Has(stops[i], "lines")
  THEN Throw
  ELSE Ok(SelectSeq(stops, LAMBDA stop : Has(stop, "type") /\ stop.type = "main"
                                           /\ Len(stop.lines) >= 4))

\* the three nested loops of calculateRouteWithTransfer, triple k of the
\* row-major enumeration origin stop x destination stop x terminal
RECURSIVE TransferSearch(_, _, _, _, _, _)
TransferSearch(originLocation, destinationLocation, nearbyOriginStops, nearbyDestinationStops, terminalStops, k) ==
  LET m == Len(nearbyDestinationStops)
      t == Len(terminalStops)
  IN IF m = 0 \/ t = 0 \/ k > Len(nearbyOriginStops) * m * t THEN Null
     ELSE LET originStop == nearbyOriginStops[((k - 1) \div (m * t)) + 1]
              destinationStop == nearbyDestinationStops[(((k - 1) \div t) % m) + 1]
              terminalStop == terminalStops[((k - 1) % t) + 1]
              firstLeg == findConnectingLines(originStop, terminalStop)
              secondLeg == findConnectingLines(terminalStop, destinationStop)
          IN IF firstLeg.threw \/ secondLeg.threw THEN Throw
             ELSE IF Len(firstLeg.value) > 0 /\ Len(secondLeg.value) > 0
             THEN TransferRouteFor(originLocation, destinationLocation, originStop, terminalStop,
                                   destinationStop, firstLeg.value, secondLeg.value)
             ELSE TransferSearch(originLocation, destinationLocation, nearbyOriginStops,
                                 nearbyDestinationStops, terminalStops, k + 1)

\* defined in the module and called from nowhere in it
calculateRouteWithTransfer(originLocation, destinationLocation, stops) ==
  LET nearbyOriginStops == findNearbyStops(Coordinates(originLocation), stops, SearchRadius, SearchLimit)
  IN IF nearbyOriginStops.threw THEN Throw
     ELSE LET nearbyDestinationStops ==
                findNearbyStops(Coordinates(destinationLocation), stops, SearchRadius, SearchLimit)
              terminalStops == TerminalStops(stops)
          IN IF nearbyDestinationStops.threw \/ terminalStops.threw THEN Throw
             ELSE TransferSearch(originLocation, destinationLocation, nearbyOriginStops.value,
                                 nearbyDestinationStops.value, terminalStops.value, 1)

\* the object createExampleRoute builds for endpoints directDistance apart
ExampleRouteFor(originLocation, destinationLocation, directDistance) ==
  LET walkToStopTime == 8
      busTime == Max(25, MathRound(directDistance, BusSpeed))
      walkFromStopTime == 5
      waitTime == 10
      totalTime == walkToStopTime + busTime + walkFromStopTime + waitTime
  IN [id |-> "example-route-1",
      origem |-> originLocation,
      destino |-> destinationLocation,
      tempo_total |-> totalTime,
      distancia_total |-> directDistance + 600,
      transferencias |-> 0,
      custo_total |-> SingleFare,
      acessibilidade |-> TRUE,
      segmentos |-> << [linha |-> ExampleLine,
                        paradaOrigem |-> [id |-> "example-origin",
                                          name |-> <<"Parada proxima a", originLocation.name>>,
                                          coordinates |-> originLocation.coordinates,
                                          accessibility |-> TRUE],
                        paradaDestino |-> [id |-> "example-destination",
                                           name |-> <<"Parada proxima a", destinationLocation.name>>,
                                           coordinates |-> destinationLocation.coordinates,
                                           accessibility |-> TRUE],
                        tempo |-> busTime,
                        paradas |-> Max(3, MathRound(directDistance, 800)),
                        caminhadaInicial |-> [distancia |-> 400, tempo |-> walkToStopTime],
                        caminhadaFinal |-> [distancia |-> 200, tempo |-> walkFromStopTime]] >>,
      observacoes |-> <<"Rota calculada com base na distancia entre os pontos",
                        "Horarios e linhas podem variar - consulte o DFTrans">>]

\* createExampleRoute without the 600 m walking allowance in distancia_total
createExampleRouteNoAllowance(originLocation, destinationLocation, stops) ==
  IF originLocation = Null THEN Throw
  ELSE IF Has(originLocation, "coordinates") /\ destinationLocation = Null THEN Throw
  ELSE IF ~Has(originLocation, "coordinates") \/ ~Has(destinationLocation, "coordinates") THEN Null
  ELSE LET directDistance == calculateDistance(originLocation.coordinates, destinationLocation.coordinates)
       IN [ExampleRouteFor(originLocation, destinationLocation, directDistance)
             EXCEPT !.distancia_total = directDistance]

\* createExampleRoute without the Math.max(25, ...) floor on the bus time
createExampleRouteNoFloor(originLocation, destinationLocation, stops) ==
  IF originLocation = Null THEN Throw
  ELSE IF Has(originLocation, "coordinates") /\ destinationLocation = Null THEN Throw
  ELSE IF ~Has(originLocation, "coordinates") \/ ~Has(destinationLocation, "coordinates") THEN Null
  ELSE LET directDistance == calculateDistance(originLocation.coordinates, destinationLocation.coordinates)
           busTime == MathRound(directDistance, BusSpeed)
       IN [ExampleRouteFor(originLocation, destinationLocation, directDistance)
             EXCEPT !.tempo_total = 8 + busTime + 5 + 10,
                    !.segmentos[1].tempo = busTime]

\* createExampleRoute counting the 600 m of walking only when the catalog
\* has a stop to walk to
createExampleRouteReadsCatalog(originLocation, destinationLocation, stops) ==
  IF originLocation = Null THEN Throw
  ELSE IF Has(originLocation, "coordinates") /\ destinationLocation = Null THEN Throw
  ELSE IF ~Has(originLocation, "coordinates") \/ ~Has(destinationLocation, "coordinates") THEN Null
  ELSE LET directDistance == calculateDistance(originLocation.coordinates, destinationLocation.coordinates)
       IN [ExampleRouteFor(originLocation, destinationLocation, directDistance)
             EXCEPT !.distancia_total = directDistance + (IF stops = <<>> THEN 0 ELSE 600)]

\* the route, Null for a location without coordinates, Throw for a null
\* location (the read of its coordinates property)
createExampleRoute(originLocation, destinationLocation, stops) ==
  IF originLocation = Null THEN Throw
  ELSE IF Has(originLocation, "coordinates") /\ destinationLocation = Null THEN Throw
  ELSE IF ~Has(originLocation, "coordinates") \/ ~Has(destinationLocation, "coordinates") THEN Null
  ELSE ExampleRouteFor(originLocation, destinationLocation,
                       calculateDistance(originLocation.coordinates, destinationLocation.coordinates))

\* calculateRoutes without the sort of the routes
SortRoutesOmitted(routes) ==
  IF Len(routes) >= 2 /\ \E i \in 1..Len(routes) : routes[i] = Null THEN Throw
  ELSE Ok(routes)

\* routes.sort((a, b) => a.tempo_total - b.tempo_total): the comparator is
\* called only when there are two elements or more, and reading tempo_total
\* of null throws
SortRoutes(routes) ==
  IF Len(routes) >= 2 /\ \E i \in 1..Len(routes) : routes[i] = Null THEN Throw
  ELSE IF Len(routes) < 2 THEN Ok(routes)
  ELSE Ok(StableSort(routes, [i \in 1..Len(routes) |-> routes[i].tempo_total]))

\* a try block that keeps the example route only when no direct route is found
TryBlockDemoted(originLocation, destinationLocation, stops) ==
  IF originLocation = Null \/ destinationLocation = Null THEN Throw
  ELSE LET exampleRoute == createExampleRoute(originLocation, destinationLocation, stops)
           directRoute == calculateDirectRoute(originLocation, destinationLocation, stops)
       IN IF directRoute = Throw THEN Throw
          ELSE IF directRoute # Null THEN SortRoutes(<<directRoute>>)
          ELSE SortRoutes(<<exampleRoute>>)

\* a try block that also pushes the route calculateRouteWithTransfer finds
TryBlockAlsoTransfer(originLocation, destinationLocation, stops) ==
  IF originLocation = Null \/ destinationLocation = Null THEN Throw
  ELSE LET exampleRoute == createExampleRoute(originLocation, destinationLocation, stops)
           directRoute == calculateDirectRoute(originLocation, destinationLocation, stops)
           transferRoute == calculateRouteWithTransfer(originLocation, destinationLocation, stops)
       IN IF directRoute = Throw \/ transferRoute = Throw THEN Throw
          ELSE SortRoutes(<<exampleRoute>>
                            \o (IF directRoute # Null THEN <<directRoute>> ELSE <<>>)
                            \o (IF transferRoute # Null THEN <<transferRoute>> ELSE <<>>))

\* the try block of calculateRoutes (the console.log of originLocation.name
\* throws on a null location)
TryBlock(originLocation, destinationLocation, stops) ==
  IF originLocation = Null \/ destinationLocation = Null THEN Throw
  ELSE LET exampleRoute == createExampleRoute(originLocation, destinationLocation, stops)
           directRoute == calculateDirectRoute(originLocation, destinationLocation, stops)
       IN IF directRoute = Throw THEN Throw
          ELSE IF directRoute # Null THEN SortRoutes(<<exampleRoute, directRoute>>)
          ELSE SortRoutes(<<exampleRoute>>)

\* a catch block that logs and rethrows, as rotasAPI.salvarRota does
CatchBlockRethrow(originLocation, destinationLocation, stops) == Throw

\* the catch block of calculateRoutes
CatchBlock(originLocation, destinationLocation, stops) ==
  LET fallbackRoute == createExampleRoute(originLocation, destinationLocation, stops)
  IN IF fallbackRoute = Throw THEN Throw
     ELSE IF fallbackRoute # Null THEN Ok(<<fallbackRoute>>)
     ELSE Ok(<<>>)

\* the promise calculateRoutes returns: rejected, or fulfilled with routes
calculateRoutes(originLocation, destinationLocation, stops) ==
  LET tried == TryBlock(originLocation, destinationLocation, stops)
      caught == CatchBlock(originLocation, destinationLocation, stops)
  IN IF ~tried.threw THEN [rejected |-> FALSE, routes |-> tried.value]
     ELSE IF ~caught.threw THEN [rejected |-> FALSE, routes |-> caught.value]
     ELSE [rejected |-> TRUE, routes |-> <<>>]

\* the array busStops after calculateRoutes ran: its only uses of busStops
\* are busStops.length and the two findNearbyStops calls of
\* calculateDirectRoute (the second is not reached when the first throws)
busStopsAfterRoutes(originLocation, destinationLocation, stops) ==
  IF originLocation = Null \/ destinationLocation = Null THEN stops
  ELSE LET afterOrigin == busStopsAfterNearby(Coordinates(originLocation), stops,
                                              SearchRadius, SearchLimit)
       IN IF findNearbyStops(Coordinates(originLocation), stops, SearchRadius, SearchLimit).threw
          THEN afterOrigin
          ELSE busStopsAfterNearby(Coordinates(destinationLocation), afterOrigin,
                                   SearchRadius, SearchLimit)

\* the array busStops after calculateRouteWithTransfer ran: two
\* findNearbyStops calls, then busStops.filter, which builds a new array
busStopsAfterTransfer(originLocation, destinationLocation, stops) ==
  LET afterOrigin == busStopsAfterNearby(Coordinates(originLocation), stops,
                                         SearchRadius, SearchLimit)
  IN IF findNearbyStops(Coordinates(originLocation), stops, SearchRadius, SearchLimit).threw
     THEN afterOrigin
     ELSE busStopsAfterNearby(Coordinates(destinationLocation), afterOrigin,
                              SearchRadius, SearchLimit)

\* ---- rotasAPI.calcularRotas.  What the backend does with the POST is the
\* environment's choice: the request fails (network error, timeout, error
\* status), or it succeeds with a JSON object as response.data.  A JSON
\* array is [array |-> its elements].
JsArray(seq) == [array |-> seq]
RequestFailed == [failed |-> TRUE]
RequestSucceeded(data) == [failed |-> FALSE, data |-> data]
BackendRoute == [id |-> "backend-route-1", tempo_total |-> 30, transferencias |-> 0]

BackendOutcomes ==
  { RequestFailed,
    RequestSucceeded([rotas |-> JsArray(<<BackendRoute>>)]),
    RequestSucceeded([rotas |-> JsArray(<<>>)]),
    RequestSucceeded([rotas |-> Null]),
    RequestSucceeded([erro |-> "sem rotas"]) }

\* building the request body reads origem.coordinates[0] and
\* destino.coordinates[0]: a null location, or one without coordinates, throws
RequestBodyThrows(origem, destino) ==
  \/ origem = Null \/ ~Has(origem, "coordinates")
  \/ destino = Null \/ ~Has(destino, "coordinates")

\* response.data.rotas || []
RotasOrEmpty(data) ==
  IF Has(data, "rotas") /\ data.rotas # Null THEN data.rotas.array ELSE <<>>

\* calcularRotas with a catch block that logs and rethrows, as
\* rotasAPI.salvarRota does
calcularRotasRethrow(origem, destino, outcome, stops) ==
  IF RequestBodyThrows(origem, destino)
  THEN [posted |-> FALSE, local |-> FALSE, returned |-> [rejected |-> TRUE, routes |-> <<>>]]
  ELSE IF outcome.failed
  THEN [posted |-> TRUE, local |-> FALSE, returned |-> [rejected |-> TRUE, routes |-> <<>>]]
  ELSE [posted |-> TRUE, local |-> FALSE,
        returned |-> [rejected |-> FALSE, routes |-> RotasOrEmpty(outcome.data)]]

\* posted: the POST was sent; local: calculateRoutes(origem, destino) was
\* called (on the default catalog mockBusStops); returned: the promise
calcularRotas(origem, destino, outcome, stops) ==
  IF RequestBodyThrows(origem, destino)
  THEN [posted |-> FALSE, local |-> TRUE, returned |-> calculateRoutes(origem, destino, stops)]
  ELSE IF outcome.failed
  THEN [posted |-> TRUE, local |-> TRUE, returned |-> calculateRoutes(origem, destino, stops)]
  ELSE [posted |-> TRUE, local |-> FALSE,
        returned |-> [rejected |-> FALSE, routes |-> RotasOrEmpty(outcome.data)]]

\* ---------------------------------------------------------- SearchForm
\* A text is the sequence of its characters, so that trim, toLowerCase,
\* includes and length are computed as String computes them.
Trimmed(text) ==
  LET inner == {i \in 1..Len(text) : text[i] # " "}
  IN IF inner = {} THEN <<>>
     ELSE SubSeq(text, CHOOSE i \in inner : \A j \in inner : i <= j,
                       CHOOSE i \in inner : \A j \in inner : i >= j)

LowerCaseOf(char) ==
  IF char = "A" THEN "a" ELSE IF char = "B" THEN "b"
  ELSE IF char = "C" THEN "c" ELSE IF char = "D" THEN "d" ELSE char

ToLowerCase(text) == [i \in 1..Len(text) |-> LowerCaseOf(text[i])]

TextIncludes(text, part) ==
  \E i \in 0..(Len(text) - Len(part)) : SubSeq(text, i + 1, i + Len(part)) = part

\* the locations prop (the local fallback list) and the stop the backend
\* knows; mapBounds and userLocation keep their default, null
LocationAb == [name |-> <<"A", "b">>, type |-> "terminal", coordinates |-> <<0, 0>>]
LocationCd == [name |-> <<"C", "d">>, type |-> "metro", coordinates |-> <<50, 0>>]
locations == <<LocationCd, LocationAb>>
ParadaAbc == [id |-> 1, name |-> <<"A", "b", "c">>, type |-> "main", coordinates |-> <<2880, 0>>]

\* priorityOrder[type] || 99 of filterSuggestions
LocalPriority(type) ==
  IF type = "terminal" THEN 1 ELSE IF type = "metro" THEN 2
  ELSE IF type = "shopping" THEN 3 ELSE IF type = "hospital" THEN 4
  ELSE IF type = "educacao" THEN 5 ELSE 99

\* the locations prop holds no two locations of one priority, so the
\* comparator never comes to localeCompare
filterSuggestions(value, locationsList) ==
  IF value = <<>> \/ Len(value) < 2 THEN <<>>
  ELSE LET filtered == SelectSeq(locationsList, LAMBDA location :
                                   TextIncludes(ToLowerCase(location.name), ToLowerCase(value)))
           sorted == StableSort(filtered, [i \in 1..Len(filtered) |-> LocalPriority(filtered[i].type)])
       IN SubSeq(sorted, 1, Min(6, Len(sorted)))

\* mapBounds is null: the list comes back as it is
priorizarSugestoesPorMapa(sugestoes) == sugestoes

\* what buscarSugestoes gives to setOrigemSuggestions / setDestinoSuggestions
\* once paradasAPI.buscarParaAutocomplete has answered with sugestoesAPI
\* (the empty list when the request failed)
SugestoesFor(query, sugestoesAPI) ==
  LET sugestoesLocais == filterSuggestions(query, locations)
      novas == SelectSeq(sugestoesLocais, LAMBDA local :
                           \A i \in 1..Len(sugestoesAPI) : sugestoesAPI[i].name # local.name)
      sugestoesPriorizadas == priorizarSugestoesPorMapa(sugestoesAPI \o novas)
  IN SubSeq(sugestoesPriorizadas, 1, Min(8, Len(sugestoesPriorizadas)))

\* [...suggestions, ...locations].find(loc => loc.name.toLowerCase() ===
\* text.toLowerCase()): the first match, Null for undefined
Correspondencia(text, suggestions) ==
  LET all == suggestions \o locations
      hits == {i \in 1..Len(all) : ToLowerCase(all[i].name) = ToLowerCase(text)}
  IN IF hits = {} THEN Null ELSE all[CHOOSE i \in hits : \A j \in hits : i <= j]

\* the newErrors object of validateForm; "" is a message that is not set
NewErrors(origem, destino, origemSelecionada, destinoSelecionado, origemSuggestions, destinoSuggestions) ==
  LET semOrigem == Trimmed(origem) = <<>>
      semDestino == Trimmed(destino) = <<>>
      iguais == ~semOrigem /\ ~semDestino
                  /\ ToLowerCase(Trimmed(origem)) = ToLowerCase(Trimmed(destino))
      origemDesconhecida == ~semOrigem /\ origemSelecionada = Null
                              /\ Correspondencia(origem, origemSuggestions) = Null
      destinoDesconhecido == ~semDestino /\ destinoSelecionado = Null
                               /\ Correspondencia(destino, destinoSuggestions) = Null
  IN [origem |-> IF origemDesconhecida THEN "Selecione um local da lista de sugestoes"
                 ELSE IF semOrigem THEN "Informe o local de origem" ELSE "",
      destino |-> IF destinoDesconhecido THEN "Selecione um local da lista de sugestoes"
                  ELSE IF iguais THEN "Origem e destino devem ser diferentes"
                  ELSE IF semDestino THEN "Informe o destino" ELSE ""]

\* ------------------------------------------------------------- the inputs
\* stops of the catalog: well-formed ones (regular stops, a terminal with
\* four lines, a four-line stop that is no terminal) and malformed ones
StopPool ==
  { [id |-> "stop-001", name |-> "A", coordinates |-> <<0, 0>>, type |-> "regular",
     accessibility |-> TRUE, lines |-> <<111>>],
    [id |-> "stop-002", name |-> "B", coordinates |-> <<50, 0>>, type |-> "regular",
     accessibility |-> TRUE, lines |-> <<112>>],
    [id |-> "stop-003", name |-> "C", coordinates |-> <<2880, 0>>, type |-> "regular",
     accessibility |-> FALSE, lines |-> <<112, 111>>],
    [id |-> "stop-004", name |-> "H", coordinates |-> <<3000, 0>>, type |-> "main",
     accessibility |-> TRUE, lines |-> <<111, 112, 113, 114>>],
    [id |-> "stop-005", name |-> "D", coordinates |-> <<50, 0>>, type |-> "airport",
     accessibility |-> TRUE, lines |-> <<111, 112, 113, 114>>],
    [id |-> "stop-006", name |-> "M1", type |-> "regular",
     accessibility |-> TRUE, lines |-> <<111>>],
    [id |-> "stop-007", name |-> "M2", coordinates |-> <<0, 0>>, type |-> "regular",
     accessibility |-> TRUE, lines |-> <<>>],
    [id |-> "stop-008", name |-> "M3", coordinates |-> <<50, 0>>, type |-> "regular",
     accessibility |-> TRUE] }

\* catalogs: up to MaxStops distinct stops, in any order
CatalogsUpTo(max) ==
  UNION { {s \in [1..n -> StopPool] : \A i, j \in 1..n : i # j => s[i] # s[j]} : n \in 0..max }

Catalogs == CatalogsUpTo(MaxStops)

Latitudes == {0, 50, 2880, 9000}

\* what a caller may pass as origin or destination: a location, a location
\* without coordinates, or null
Locations ==
  { [name |-> "P", coordinates |-> <<lat, 0>>] : lat \in Latitudes }
    \cup { [name |-> "P"], Null }

\* ------------------------------------------------------ the state machine
\* busStops is the catalog array (mockBusStops) every call is given;
\* snapshot is its value when the module was loaded (a history variable).
\* originLocation, destinationLocation, result, called: the last awaited
\* call of calculateRoutes.  nearby: the last call of findNearbyStops.
\* callers: two callers of calculateRoutes, each idle, holding a pending
\* promise, or resumed with the value of its promise.  transfer: the last
\* call of calculateRouteWithTransfer.  direct: the last call of
\* calculateDirectRoute.  rotas: the last call of rotasAPI.calcularRotas.
\* form: the state of the SearchForm component (its useState cells);
\* timers: whether the debounce timeout of each field is pending; requests:
\* the autocomplete requests in flight; searched: the last call of onSearch;
\* computedFor: the query each suggestion list was computed for (history).
VARIABLES busStops, snapshot, originLocation, destinationLocation, result, called, nearby, callers, transfer, direct, rotas,
          form, timers, requests, searched, computedFor

vars == <<busStops, snapshot, originLocation, destinationLocation, result, called, nearby, callers, transfer, direct, rotas,
         form, timers, requests, searched, computedFor>>

\* the variables of the route services, and those of the search form
routeVars == <<busStops, snapshot, originLocation, destinationLocation, result, called, nearby, callers, transfer, direct, rotas>>
formVars == <<form, timers, requests, searched, computedFor>>

Callers == {1, 2}
Idle == [state |-> "idle"]
NoNearby == [called |-> FALSE]
NoTransfer == [called |-> FALSE]
NoDirect == [called |-> FALSE]
NoRotas == [called |-> FALSE]
NoSearch == [called |-> FALSE]
Fields == {"origem", "destino"}

\* useState('') / useState([]) / useState(false) / useState({}) / useState(null)
FormMounted ==
  [origem |-> <<>>, destino |-> <<>>,
   origemSuggestions |-> <<>>, destinoSuggestions |-> <<>>,
   showOrigemSuggestions |-> FALSE, showDestinoSuggestions |-> FALSE,
   errors |-> [origem |-> "", destino |-> ""],
   origemSelecionada |-> Null, destinoSelecionado |-> Null]

InitWith(catalogs) ==
  /\ busStops \in catalogs
  /\ snapshot = busStops
  /\ originLocation = Null
  /\ destinationLocation = Null
  /\ result = [rejected |-> FALSE, routes |-> <<>>]
  /\ called = FALSE
  /\ nearby = NoNearby
  /\ callers = [c \in Callers |-> Idle]
  /\ transfer = NoTransfer
  /\ direct = NoDirect
  /\ rotas = NoRotas
  /\ form = FormMounted
  /\ timers = [f \in Fields |-> FALSE]
  /\ requests = {}
  /\ searched = NoSearch
  /\ computedFor = [f \in Fields |-> <<>>]

Init == InitWith(Catalogs)

\* await calculateRoutes(origin, destination, busStops)
CalculateRoutes ==
  \E origin \in Locations, destination \in Locations :
    /\ originLocation' = origin
    /\ destinationLocation' = destination
    /\ result' = calculateRoutes(origin, destination, busStops)
    /\ called' = TRUE
    /\ busStops' = busStopsAfterRoutes(origin, destination, busStops)
    /\ UNCHANGED <<snapshot, nearby, callers, transfer, direct, rotas, formVars>>

Next == CalculateRoutes

Spec == Init /\ [][Next]_vars

\* ---- findNearbyStops called on its own (findNearbyStopsForLocation, and
\* the calls of calculateDirectRoute), with the radius and the limit as inputs
Points == { <<lat, 0>> : lat \in Latitudes }
Radii == {1000, 1200, 3000}
Limits == {1, 2, 3, 10}

FindNearbyStops ==
  \E coordinates \in Points, maxDistance \in Radii, limit \in Limits :
    /\ nearby' = [called |-> TRUE, coordinates |-> coordinates, maxDistance |-> maxDistance,
                  limit |-> limit, busStops |-> busStops,
                  returned |-> findNearbyStops(coordinates, busStops, maxDistance, limit)]
    /\ busStops' = busStopsAfterNearby(coordinates, busStops, maxDistance, limit)
    /\ UNCHANGED <<snapshot, originLocation, destinationLocation, result, called, callers, transfer, direct, rotas, formVars>>

NextNearby == FindNearbyStops

SpecNearby == Init /\ [][NextNearby]_vars

\* ---- two callers of calculateRoutes whose calls overlap.  calculateRoutes
\* is an async function without an await in its body: a call runs its body
\* to the end and returns a settled promise; the caller, suspended at its
\* own await, is resumed with the value in a later task, after any number
\* of calls of the other caller.
CallerLocations ==
  { [name |-> "P", coordinates |-> <<lat, 0>>] : lat \in {0, 9000} } \cup { [name |-> "P"] }

Call(c) ==
  /\ callers[c].state # "pending"
  /\ \E origin \in CallerLocations, destination \in CallerLocations :
       /\ callers' = [callers EXCEPT ![c] =
                        [state |-> "pending", origin |-> origin, destination |-> destination,
                         value |-> calculateRoutes(origin, destination, busStops)]]
       /\ busStops' = busStopsAfterRoutes(origin, destination, busStops)
  /\ UNCHANGED <<snapshot, originLocation, destinationLocation, result, called, nearby, transfer, direct, rotas, formVars>>

Resume(c) ==
  /\ callers[c].state = "pending"
  /\ callers' = [callers EXCEPT ![c].state = "resumed"]
  /\ UNCHANGED <<busStops, snapshot, originLocation, destinationLocation, result, called, nearby, transfer, direct, rotas, formVars>>

NextCallers == \E c \in Callers : Call(c) \/ Resume(c)

InitCallers == InitWith(CatalogsUpTo(MaxCallerStops))

SpecCallers == InitCallers /\ [][NextCallers]_vars

\* ---- calculateRouteWithTransfer called on its own (calculateRoutes does
\* not call it), with endpoints that are objects
TransferEndpoints == Locations \ {Null}

CalculateRouteWithTransfer ==
  \E origin \in TransferEndpoints, destination \in TransferEndpoints :
    /\ transfer' = [called |-> TRUE, origin |-> origin, destination |-> destination,
                    returned |-> calculateRouteWithTransfer(origin, destination, busStops)]
    /\ busStops' = busStopsAfterTransfer(origin, destination, busStops)
    /\ UNCHANGED <<snapshot, originLocation, destinationLocation, result, called, nearby, callers, direct, rotas, formVars>>

NextTransfer == CalculateRouteWithTransfer

SpecTransfer == Init /\ [][NextTransfer]_vars

\* ---- calculateDirectRoute called on its own; calculateRoutes reaches the
\* call only with endpoints that are objects (a null endpoint throws at the
\* console.log before it).  The array busStops is used as in
\* calculateRouteWithTransfer: two findNearbyStops calls.
DirectEndpoints == Locations \ {Null}

CalculateDirectRoute ==
  \E origin \in DirectEndpoints, destination \in DirectEndpoints :
    /\ direct' = [called |-> TRUE, origin |-> origin, destination |-> destination,
                  returned |-> calculateDirectRoute(origin, destination, busStops)]
    /\ busStops' = busStopsAfterTransfer(origin, destination, busStops)
    /\ UNCHANGED <<snapshot, originLocation, destinationLocation, result, called, nearby, callers, transfer, rotas, formVars>>

NextDirect == CalculateDirectRoute

SpecDirect == Init /\ [][NextDirect]_vars

\* ---- rotasAPI.calcularRotas called with any two locations, the backend
\* answering as it chooses
RotasEndpoints ==
  { [name |-> "P", coordinates |-> <<lat, 0>>] : lat \in {0, 9000} } \cup { [name |-> "P"], Null }

CalcularRotas ==
  \E origem \in RotasEndpoints, destino \in RotasEndpoints, outcome \in BackendOutcomes :
    LET call == calcularRotas(origem, destino, outcome, busStops)
    IN /\ rotas' = [called |-> TRUE, origem |-> origem, destino |-> destino,
                    outcome |-> outcome, posted |-> call.posted, local |-> call.local,
                    returned |-> call.returned]
       /\ busStops' = IF call.local THEN busStopsAfterRoutes(origem, destino, busStops)
                      ELSE busStops
       /\ UNCHANGED <<snapshot, originLocation, destinationLocation, result, called, nearby, callers, transfer, direct, formVars>>

NextRotas == CalcularRotas

SpecRotas == InitCallers /\ [][NextRotas]_vars

\* ---- the SearchForm component: one action per event handler, timeout
\* callback and request completion.  A handler reads the state of the render
\* it was created in (the unprimed variables); its setState calls take
\* effect at the next render (the primed ones).  The catalog plays no part.
\* what the user types: nothing, a text too short for the autocomplete, and
\* the names of two locations, one of them in lower case
OrigemTexts == { <<>>, <<"a">>, <<"a", "b">>, <<"C", "d">> }
DestinoTexts == { <<>>, <<"C", "d">> }

\* the debounce effect runs again after a render in which the text changed:
\* the cleanup clears the pending timeout and a new one is set
handleOrigemChange ==
  \E value \in OrigemTexts \ {form.origem} :
    /\ form' = [form EXCEPT !.origem = value,
                            !.origemSelecionada = Null,
                            !.showOrigemSuggestions = Len(value) >= 2,
                            !.errors.origem = ""]
    /\ timers' = [timers EXCEPT !["origem"] = TRUE]
    /\ UNCHANGED <<routeVars, requests, searched, computedFor>>

handleDestinoChange ==
  \E value \in DestinoTexts \ {form.destino} :
    /\ form' = [form EXCEPT !.destino = value,
                            !.destinoSelecionado = Null,
                            !.showDestinoSuggestions = Len(value) >= 2,
                            !.errors.destino = ""]
    /\ timers' = [timers EXCEPT !["destino"] = TRUE]
    /\ UNCHANGED <<routeVars, requests, searched, computedFor>>

\* a click on an entry of the dropdown, which is rendered when
\* showOrigemSuggestions is set and the list is not empty
selectOrigemSuggestion ==
  /\ form.showOrigemSuggestions
  /\ \E i \in 1..Len(form.origemSuggestions) :
       LET suggestion == form.origemSuggestions[i]
       IN /\ form' = [form EXCEPT !.origem = suggestion.name,
                                  !.origemSelecionada = suggestion,
                                  !.showOrigemSuggestions = FALSE,
                                  !.errors.origem = ""]
          /\ timers' = [timers EXCEPT !["origem"] = @ \/ suggestion.name # form.origem]
  /\ UNCHANGED <<routeVars, requests, searched, computedFor>>

selectDestinoSuggestion ==
  /\ form.showDestinoSuggestions
  /\ \E i \in 1..Len(form.destinoSuggestions) :
       LET suggestion == form.destinoSuggestions[i]
       IN /\ form' = [form EXCEPT !.destino = suggestion.name,
                                  !.destinoSelecionado = suggestion,
                                  !.showDestinoSuggestions = FALSE,
                                  !.errors.destino = ""]
          /\ timers' = [timers EXCEPT !["destino"] = @ \/ suggestion.name # form.destino]
  /\ UNCHANGED <<routeVars, requests, searched, computedFor>>

\* handleSubmit: validateForm, then onSearch with origemSelecionada and
\* destinoSelecionado as the handler sees them
handleSubmit ==
  LET newErrors == NewErrors(form.origem, form.destino, form.origemSelecionada,
                             form.destinoSelecionado, form.origemSuggestions,
                             form.destinoSuggestions)
      origemFound == IF Trimmed(form.origem) # <<>> /\ form.origemSelecionada = Null
                     THEN Correspondencia(form.origem, form.origemSuggestions) ELSE Null
      destinoFound == IF Trimmed(form.destino) # <<>> /\ form.destinoSelecionado = Null
                      THEN Correspondencia(form.destino, form.destinoSuggestions) ELSE Null
  IN /\ form' = [form EXCEPT !.errors = newErrors,
                             !.origemSelecionada = IF origemFound # Null THEN origemFound ELSE @,
                             !.destinoSelecionado = IF destinoFound # Null THEN destinoFound ELSE @]
     /\ searched' = IF newErrors.origem = "" /\ newErrors.destino = ""
                    THEN [called |-> TRUE, origem |-> form.origemSelecionada,
                          destino |-> form.destinoSelecionado]
                    ELSE searched
     /\ UNCHANGED <<routeVars, timers, requests, computedFor>>

TextOf(field) == IF field = "origem" THEN form.origem ELSE form.destino

\* the timeout of a field's debounce effect fires, 150 ms after the last
\* change of the text: buscarSugestoes(text) runs up to its await, which
\* leaves the request of paradasAPI.buscarParaAutocomplete in flight
DebounceFires(field) ==
  /\ timers[field]
  /\ timers' = [timers EXCEPT ![field] = FALSE]
  /\ requests' = IF TextOf(field) # <<>> /\ Len(TextOf(field)) >= 2
                 THEN requests \cup {[field |-> field, query |-> TextOf(field)]}
                 ELSE requests
  /\ UNCHANGED <<routeVars, form, searched, computedFor>>

\* what paradasAPI.buscarParaAutocomplete returns for a query: [] when the
\* request fails or the backend knows no such stop, or the stops of the
\* backend whose name holds the query
AutocompleteAnswers(query) ==
  { <<>> } \cup { <<parada>> : parada \in { p \in {ParadaAbc} :
                                              TextIncludes(ToLowerCase(p.name), ToLowerCase(query)) } }

\* a request completes, in any order, and buscarSugestoes resumes after
\* its await
AutocompleteResponds ==
  \E request \in requests :
    \E sugestoesAPI \in AutocompleteAnswers(request.query) :
      LET sugestoes == SugestoesFor(request.query, sugestoesAPI)
      IN /\ requests' = requests \ {request}
         /\ form' = IF request.field = "origem"
                    THEN [form EXCEPT !.origemSuggestions = sugestoes]
                    ELSE [form EXCEPT !.destinoSuggestions = sugestoes]
         /\ computedFor' = [computedFor EXCEPT ![request.field] = request.query]
         /\ UNCHANGED <<routeVars, timers, searched>>

NextForm ==
  \/ handleOrigemChange
  \/ handleDestinoChange
  \/ selectOrigemSuggestion
  \/ selectDestinoSuggestion
  \/ handleSubmit
  \/ \E field \in Fields : DebounceFires(field)
  \/ AutocompleteResponds

InitForm == InitWith(CatalogsUpTo(0))

SpecForm == InitForm /\ [][NextForm]_vars

TypeOK ==
  /\ snapshot \in Catalogs
  /\ called \in BOOLEAN
  /\ result.rejected \in BOOLEAN

\* ------------------------------------------- vocabulary of the properties
IsItinerary(r) == r # Null
IsFallback(r) == r # Null /\ Has(r, "id") /\ r.id = "example-route-1"
IsDirect(r) == r # Null /\ ~Has(r, "id") /\ r.transferencias = 0 /\ Len(r.segmentos) = 1
IsTransfer(r) == r # Null /\ r.transferencias = 1

Returned == result.routes
FiniteEndpoints ==
  /\ called
  /\ originLocation # Null /\ Has(originLocation, "coordinates")
  /\ destinationLocation # Null /\ Has(destinationLocation, "coordinates")

WellFormed(stop) == Has(stop, "coordinates") /\ Has(stop, "lines") /\ stop.lines # <<>>
Malformed(stop) == ~Has(stop, "coordinates") \/ (Has(stop, "lines") /\ stop.lines = <<>>)
AllWellFormed == \A i \in 1..Len(busStops) : WellFormed(busStops[i])
SharesLine(a, b) == \E i \in 1..Len(a.lines), j \in 1..Len(b.lines) : a.lines[i] = b.lines[j]

\* the stops near the endpoints of the last call (catalog well formed)
NearbyOrigin == findNearbyStops(originLocation.coordinates, busStops, SearchRadius, SearchLimit).value
NearbyDestination == findNearbyStops(destinationLocation.coordinates, busStops, SearchRadius, SearchLimit).value
Elems(seq) == {seq[i] : i \in 1..Len(seq)}

\* C1: for endpoints that both carry coordinates and any catalog, the call
\* does not reject and returns at least one itinerary.
C1_NonEmpty ==
  FiniteEndpoints =>
    /\ ~result.rejected
    /\ Len(Returned) >= 1
    /\ \A i \in 1..Len(Returned) : IsItinerary(Returned[i])

\* C1 witness: a call with finite endpoints on a catalog holding a stop that
\* makes the search throw, answered with an itinerary.
C1_Witness ==
  /\ FiniteEndpoints
  /\ \E i \in 1..Len(busStops) : ~Has(busStops[i], "coordinates")
  /\ ~result.rejected /\ Len(Returned) >= 1

\* C2 (as claimed): nearest origin stop and nearest destination stop with
\* disjoint lines and no stop of four lines or more in the catalog: only the
\* fallback is returned.
C2_OnlyFallback ==
  ( /\ FiniteEndpoints /\ AllWellFormed
    /\ NearbyOrigin # <<>> /\ NearbyDestination # <<>>
    /\ ~SharesLine(NearbyOrigin[1], NearbyDestination[1])
    /\ \A i \in 1..Len(busStops) : Len(busStops[i].lines) < 4 )
  => \A i \in 1..Len(Returned) : IsFallback(Returned[i])

\* C3 (as claimed): a nearby origin stop and a nearby destination stop that
\* share no line but each share one with a terminal of four lines or more:
\* a transfer itinerary (transferencias = 1) is returned.
C3_TransferReturned ==
  ( /\ FiniteEndpoints /\ AllWellFormed
    /\ \E o \in Elems(NearbyOrigin), d \in Elems(NearbyDestination), h \in Elems(busStops) :
         /\ ~SharesLine(o, d) /\ SharesLine(o, h) /\ SharesLine(h, d)
         /\ h.type = "main" /\ Len(h.lines) >= 4 )
  => \E i \in 1..Len(Returned) : IsTransfer(Returned[i])

\* C4 (as claimed): every pair of a nearby origin stop and a nearby
\* destination stop sharing a line has its direct itinerary in the result.
C4_EveryPairDirect ==
  (FiniteEndpoints /\ AllWellFormed) =>
    \A o \in Elems(NearbyOrigin), d \in Elems(NearbyDestination) :
      SharesLine(o, d) =>
        \E i \in 1..Len(Returned) :
          /\ IsDirect(Returned[i])
          /\ Returned[i].segmentos[1].paradaOrigem.id = o.id
          /\ Returned[i].segmentos[1].paradaDestino.id = d.id

\* C5: the returned list is non-decreasing in tempo_total.
C5_Sorted ==
  called =>
    \A i \in 1..(Len(Returned) - 1) :
      Returned[i].tempo_total <= Returned[i + 1].tempo_total

\* C5 witness: two itineraries of different duration, the one pushed last
\* (the direct one) returned first.
C5_Witness ==
  /\ called /\ Len(Returned) = 2
  /\ IsDirect(Returned[1]) /\ IsFallback(Returned[2])
  /\ Returned[1].tempo_total < Returned[2].tempo_total

\* C6 (as claimed): among itineraries of equal tempo_total the smaller
\* distancia_total comes first, then the fewer transferencias.
C6_TieBreak ==
  called =>
    \A i, j \in 1..Len(Returned) :
      (i < j /\ IsItinerary(Returned[i]) /\ IsItinerary(Returned[j])
         /\ Returned[i].tempo_total = Returned[j].tempo_total) =>
        \/ Returned[i].distancia_total < Returned[j].distancia_total
        \/ /\ Returned[i].distancia_total = Returned[j].distancia_total
           /\ Returned[i].transferencias <= Returned[j].transferencias

\* C7 (as claimed): one malformed stop (no coordinates, or an empty line
\* set) among valid stops changes nothing: the call returns what it returns
\* on the valid stops alone.
C7_MalformedSkipped ==
  ( /\ FiniteEndpoints
    /\ Cardinality({i \in 1..Len(busStops) : Malformed(busStops[i])}) = 1
    /\ \A i \in 1..Len(busStops) : Malformed(busStops[i]) \/ WellFormed(busStops[i]) )
  => Returned = calculateRoutes(originLocation, destinationLocation,
                                SelectSeq(busStops, WellFormed)).routes

C9_EmptyCatalog ==
  (FiniteEndpoints /\ busStops = <<>>) =>
    /\ Len(Returned) = 1
    /\ IsFallback(Returned[1])
    /\ Returned[1].distancia_total =
         calculateDistance(originLocation.coordinates, destinationLocation.coordinates) + 600

\* C9 witness: a call on the empty catalog between two distinct points.
C9_Witness ==
  /\ FiniteEndpoints /\ busStops = <<>>
  /\ originLocation.coordinates # destinationLocation.coordinates
  /\ Len(Returned) = 1 /\ Returned[1].distancia_total > 600

\* C10: with origin and destination at the same coordinates the call does
\* not reject, the distance is 0 (the fallback's distancia_total is the bare
\* 600 m allowance) and the fallback's transit leg lasts the 25-minute floor.
C10_SamePoint ==
  (FiniteEndpoints /\ originLocation.coordinates = destinationLocation.coordinates) =>
    /\ ~result.rejected
    /\ calculateDistance(originLocation.coordinates, destinationLocation.coordinates) = 0
    /\ \E i \in 1..Len(Returned) :
         /\ IsFallback(Returned[i])
         /\ Returned[i].distancia_total = 600
         /\ Returned[i].segmentos[1].tempo = 25

\* C10 witness: a call with origin = destination on a non-empty catalog.
C10_Witness ==
  /\ FiniteEndpoints /\ originLocation.coordinates = destinationLocation.coordinates
  /\ busStops # <<>>
  /\ \E i \in 1..Len(Returned) : IsFallback(Returned[i])

\* ---------------------------------------------------- legs of an itinerary
ItinerariesReturned == {Returned[i] : i \in {j \in 1..Len(Returned) : Returned[j] # Null}}

WalkPresent(seg, leg) == Has(seg, leg) /\ seg[leg] # Null
WalkDistance(seg, leg) == IF WalkPresent(seg, leg) THEN seg[leg].distancia ELSE 0
WalkTime(seg, leg) == IF WalkPresent(seg, leg) THEN seg[leg].tempo ELSE 0
TransitDistance(seg) == calculateDistance(seg.paradaOrigem.coordinates, seg.paradaDestino.coordinates)

RECURSIVE SumOver(_, _)
SumOver(f, n) == IF n = 0 THEN 0 ELSE f[n] + SumOver(f, n - 1)

\* distance and minutes of the legs an itinerary holds
LegsDistance(r) ==
  SumOver([i \in 1..Len(r.segmentos) |->
             WalkDistance(r.segmentos[i], "caminhadaInicial") + TransitDistance(r.segmentos[i])
               + WalkDistance(r.segmentos[i], "caminhadaFinal")], Len(r.segmentos))
LegsTime(r) ==
  SumOver([i \in 1..Len(r.segmentos) |->
             WalkTime(r.segmentos[i], "caminhadaInicial") + r.segmentos[i].tempo
               + WalkTime(r.segmentos[i], "caminhadaFinal")], Len(r.segmentos))
\* the fixed minutes of the builder: headway, and the dwell of a transfer
Overhead(r) ==
  IF IsFallback(r) THEN 10
  ELSE IF IsTransfer(r) THEN 15 + 12
  ELSE IF r.segmentos[1].paradaOrigem.type = "main" THEN 8 ELSE 12

\* C11 (as claimed): distancia_total of every returned itinerary is the sum
\* of the distances of the legs it holds; an omitted walk leg counts nothing.
C11_DistanceIsSumOfLegs ==
  called => \A r \in ItinerariesReturned : r.distancia_total = LegsDistance(r)

\* C12 (as claimed): tempo_total of every returned itinerary is the sum of
\* the minutes of the legs it holds plus the builder's fixed overhead; an
\* omitted walk leg counts nothing.
C12_TimeIsSumOfLegs ==
  called => \A r \in ItinerariesReturned : r.tempo_total = LegsTime(r) + Overhead(r)

\* C13: acessibilidade of a returned itinerary is true exactly when every
\* stop its transit legs reference has accessibility = true.
C13_Accessibility ==
  called =>
    \A r \in ItinerariesReturned :
      (r.acessibilidade = TRUE) <=>
        \A i \in 1..Len(r.segmentos) :
          /\ r.segmentos[i].paradaOrigem.accessibility = TRUE
          /\ r.segmentos[i].paradaDestino.accessibility = TRUE

\* C13 witness: a direct itinerary between an accessible stop and one that is
\* not, returned with acessibilidade false.
C13_Witness ==
  /\ called
  /\ \E r \in ItinerariesReturned :
       /\ IsDirect(r) /\ r.acessibilidade = FALSE
       /\ r.segmentos[1].paradaOrigem.accessibility = TRUE
       /\ r.segmentos[1].paradaDestino.accessibility = FALSE


\* C16: calculateRoutes leaves the catalog as it was given: after any number
\* of calls the array holds the same stops in the same order and no stop
\* has gained, lost or changed a property (the distance annotation is
\* written to copies only).
C16_CatalogUnchanged == busStops = snapshot

\* a call has handed out a copy of a catalog stop carrying the distance
\* annotation, and the catalog stop itself has no such property
C16_Witness ==
  /\ called
  /\ \E r \in ItinerariesReturned :
       /\ IsDirect(r)
       /\ Has(r.segmentos[1].paradaOrigem, "distance")
       /\ \E i \in 1..Len(busStops) :
            /\ busStops[i].id = r.segmentos[1].paradaOrigem.id
            /\ ~Has(busStops[i], "distance")

DirectReturned == {r \in ItinerariesReturned : IsDirect(r)}
Serves(stop, line) == Has(stop, "lines") /\ Includes(stop.lines, line)
SharedLines(a, b) ==
  IF Has(a, "lines") /\ Has(b, "lines") THEN Elems(a.lines) \cap Elems(b.lines) ELSE {}

\* C17 (as claimed, on a catalog whose stops all have coordinates and
\* lines): findConnectingLines returns exactly the intersection
\* of the two stops' line sets (the empty list when they are disjoint), so
\* the line of the transit leg of every direct itinerary returned is served
\* by both its origin stop and its destination stop.
C17_LineServedByBoth ==
  (called /\ AllWellFormed) =>
    /\ \A i, j \in 1..Len(busStops) :
         (Has(busStops[i], "lines") /\ Has(busStops[j], "lines")) =>
           Elems(findConnectingLines(busStops[i], busStops[j]).value)
             = SharedLines(busStops[i], busStops[j])
    /\ \A r \in DirectReturned :
         /\ Serves(r.segmentos[1].paradaOrigem, r.segmentos[1].linha)
         /\ Serves(r.segmentos[1].paradaDestino, r.segmentos[1].linha)

\* C19 (as claimed, on a catalog whose stops all have coordinates and
\* lines): the transit leg of a direct itinerary whose stops share
\* a line uses the smallest shared line code, whatever the order of the
\* stops' line lists.  (The codes are '0.ddd' strings of one length, so the
\* lexical order is the order of the numbers ddd.)
C19_SmallestSharedLine ==
  (called /\ AllWellFormed) =>
    \A r \in DirectReturned :
      LET shared == SharedLines(r.segmentos[1].paradaOrigem, r.segmentos[1].paradaDestino)
      IN shared # {} =>
           /\ r.segmentos[1].linha \in shared
           /\ \A line \in shared : r.segmentos[1].linha <= line

\* C20 (as claimed, on a catalog whose stops all have coordinates and
\* lines): in a direct itinerary the initial walk is omitted
\* exactly when the origin stop is under 50 m from the origin, the final
\* walk exactly when the destination stop is under 50 m from the
\* destination; at 50 m or more the walk is present.
C20_WalkOmittedUnder50 ==
  (called /\ AllWellFormed) =>
    \A r \in DirectReturned :
      /\ (r.segmentos[1].caminhadaInicial = Null) <=> (r.segmentos[1].paradaOrigem.distance < 50)
      /\ (r.segmentos[1].caminhadaFinal = Null) <=> (r.segmentos[1].paradaDestino.distance < 50)

\* the stops of the catalog of the last findNearbyStops call that are within
\* the radius, by index
Qualifying ==
  {i \in 1..Len(nearby.busStops) :
     calculateDistance(nearby.coordinates, nearby.busStops[i].coordinates) <= nearby.maxDistance}

\* C18: findNearbyStops returns the limit closest stops within the radius:
\* every returned entry is a catalog stop annotated with its distance, that
\* distance is at most maxDistance, the list is sorted by non-decreasing
\* distance, it has min(limit, number of stops within the radius) entries,
\* and no stop within the radius that was left out is strictly closer than
\* a returned one.
C18_ClosestWithinRadius ==
  (nearby.called /\ ~nearby.returned.threw) =>
    LET out == nearby.returned.value
        stops == nearby.busStops
        dist(i) == calculateDistance(nearby.coordinates, stops[i].coordinates)
    IN /\ \A k \in 1..Len(out) :
            /\ out[k].distance <= nearby.maxDistance
            /\ \E i \in Qualifying : out[k] = [distance |-> dist(i)] @@ stops[i]
       /\ \A k, l \in 1..Len(out) : k < l => out[k].distance <= out[l].distance
       /\ Len(out) <= nearby.limit
       /\ Len(out) = Min(nearby.limit, Cardinality(Qualifying))
       /\ \A i \in Qualifying :
            (\A k \in 1..Len(out) : out[k].id # stops[i].id) =>
              \A k \in 1..Len(out) : ~(dist(i) < out[k].distance)

\* the limit cut the list (more stops within the radius than limit), a stop
\* was beyond the radius, and the catalog was not in order of distance
C18_Witness ==
  /\ nearby.called /\ ~nearby.returned.threw
  /\ Len(nearby.returned.value) = nearby.limit
  /\ Cardinality(Qualifying) > nearby.limit
  /\ nearby.returned.value[1].id # nearby.busStops[1].id
  /\ nearby.returned.value[1].distance < nearby.returned.value[nearby.limit].distance

\* the least whole number of minutes k with k * speed >= distance
MinutesRoundedUp(distance, speed) ==
  CHOOSE k \in 0..(distance \div speed + 1) :
    k * speed >= distance /\ (k = 0 \/ (k - 1) * speed < distance)

\* C21: the tempo_total of a direct itinerary is ceil(walkToStop / 80) +
\* ceil(busDistance / 300) + ceil(walkFromStop / 80) + headway, the headway
\* being 8 when the origin stop is of type 'main' and 12 for any other stop.
C21_DirectTime ==
  called =>
    \A r \in DirectReturned :
      LET seg == r.segmentos[1]
          headway == IF Has(seg.paradaOrigem, "type") /\ seg.paradaOrigem.type = "main"
                     THEN 8 ELSE 12
      IN r.tempo_total = MinutesRoundedUp(seg.paradaOrigem.distance, 80)
                           + MinutesRoundedUp(TransitDistance(seg), 300)
                           + MinutesRoundedUp(seg.paradaDestino.distance, 80)
                           + headway

\* a direct itinerary boarding at a stop of type 'main' after a walk that is
\* not a whole number of minutes, with a ride that is not one either
C21_Witness ==
  /\ called
  /\ \E r \in DirectReturned :
       /\ r.segmentos[1].paradaOrigem.type = "main"
       /\ r.segmentos[1].paradaOrigem.distance % 80 # 0
       /\ TransitDistance(r.segmentos[1]) % 300 # 0
       /\ r.segmentos[1].paradaDestino.distance % 80 # 0

\* the endpoints of the last calculateRouteWithTransfer call carry coordinates
TransferEndpointsFinite ==
  /\ transfer.called
  /\ Has(transfer.origin, "coordinates")
  /\ Has(transfer.destination, "coordinates")

TransferNearbyOrigin ==
  findNearbyStops(transfer.origin.coordinates, busStops, SearchRadius, SearchLimit).value
TransferNearbyDestination ==
  findNearbyStops(transfer.destination.coordinates, busStops, SearchRadius, SearchLimit).value
TransferProduced == transfer.called /\ transfer.returned # Null /\ transfer.returned # Throw

\* C22 (as claimed, on a catalog whose stops all have coordinates and
\* lines): every catalog stop with 4 lines or more is a candidate hub,
\* whatever its type: when such a stop shares a line with a stop near the
\* origin and a line with a stop near the destination, the transfer builder
\* returns a transfer itinerary.
C22_HubByLineCount ==
  (TransferEndpointsFinite /\ AllWellFormed) =>
    ( (\E i \in 1..Len(TransferNearbyOrigin), j \in 1..Len(TransferNearbyDestination),
          h \in 1..Len(busStops) :
          /\ Len(busStops[h].lines) >= 4
          /\ SharesLine(TransferNearbyOrigin[i], busStops[h])
          /\ SharesLine(busStops[h], TransferNearbyDestination[j]))
      => (TransferProduced /\ transfer.returned.transferencias = 1) )

\* C23: the tempo_total of a transfer itinerary is walkToStopTime +
\* leg1Time + 15 + leg2Time + walkFromStopTime + 12 (the wait counted
\* once), its transferencias is 1, and its fare is strictly greater than
\* the fare of the direct itinerary built for the same endpoints.
C23_TransferTime ==
  TransferProduced =>
    LET r == transfer.returned
        directRoute == calculateDirectRoute(transfer.origin, transfer.destination, busStops)
    IN /\ Len(r.segmentos) = 2
       /\ r.tempo_total = MinutesRoundedUp(r.segmentos[1].paradaOrigem.distance, 80)
                            + MinutesRoundedUp(TransitDistance(r.segmentos[1]), 300)
                            + 15
                            + MinutesRoundedUp(TransitDistance(r.segmentos[2]), 300)
                            + MinutesRoundedUp(r.segmentos[2].paradaDestino.distance, 80)
                            + 12
       /\ r.transferencias = 1
       /\ directRoute # Null /\ directRoute # Throw
       /\ r.custo_total > directRoute.custo_total

\* a transfer itinerary through a terminal that is neither of the two
\* stops, with a walk and two rides of positive duration
C23_Witness ==
  /\ TransferProduced
  /\ transfer.returned.segmentos[1].paradaOrigem.id # transfer.returned.segmentos[1].paradaDestino.id
  /\ transfer.returned.segmentos[2].paradaOrigem.id # transfer.returned.segmentos[2].paradaDestino.id
  /\ transfer.returned.segmentos[1].paradaOrigem.distance > 0
  /\ transfer.returned.segmentos[1].tempo > 0
  /\ transfer.returned.segmentos[2].tempo > 0

\* the first and the last stop of an itinerary
FirstStop(r) == r.segmentos[1].paradaOrigem
LastStop(r) == r.segmentos[Len(r.segmentos)].paradaDestino

\* C24: a transfer itinerary is produced for a pair of stops only when the
\* direct builder produced nothing for that pair: no returned list holds
\* both a direct and a transfer itinerary between the same two stops.
C24_TransferOnlyWithoutDirect ==
  called =>
    \A i, j \in 1..Len(Returned) :
      ~ ( /\ IsDirect(Returned[i])
          /\ IsTransfer(Returned[j])
          /\ FirstStop(Returned[i]).id = FirstStop(Returned[j]).id
          /\ LastStop(Returned[i]).id = LastStop(Returned[j]).id )

\* a direct itinerary was returned for a pair of stops for which
\* calculateRouteWithTransfer would build a transfer itinerary, and the list
\* holds no transfer itinerary
C24_Witness ==
  /\ FiniteEndpoints
  /\ \E r \in DirectReturned :
       LET t == calculateRouteWithTransfer(originLocation, destinationLocation, busStops)
       IN /\ t # Null /\ t # Throw
          /\ FirstStop(t).id = FirstStop(r).id
          /\ LastStop(t).id = LastStop(r).id
  /\ \A i \in 1..Len(Returned) : ~IsTransfer(Returned[i])

\* the whole number nearest to n / d, a half going up
RoundedToNearest(n, d) ==
  CHOOSE k \in 0..(n \div d + 1) : (2 * k - 1) * d <= 2 * n /\ 2 * n < (2 * k + 1) * d

FallbacksReturned == {r \in ItinerariesReturned : IsFallback(r)}
StraightLine == calculateDistance(originLocation.coordinates, destinationLocation.coordinates)

\* C25: for endpoints at straight-line distance d the fallback itinerary
\* has transit duration max(25, round(d / 300)), tempo_total = 8 + that
\* duration + 5 + 10 and distancia_total = d + 600, and it is the itinerary
\* the builder makes for the same endpoints and the empty catalog: nothing
\* in it depends on the catalog.
C25_FallbackValues ==
  FiniteEndpoints =>
    /\ FallbacksReturned # {}
    /\ \A r \in FallbacksReturned :
         LET transit == IF RoundedToNearest(StraightLine, 300) > 25
                        THEN RoundedToNearest(StraightLine, 300) ELSE 25
         IN /\ r.segmentos[1].tempo = transit
            /\ r.tempo_total = 8 + transit + 5 + 10
            /\ r.distancia_total = StraightLine + 600
            /\ r = createExampleRoute(originLocation, destinationLocation, <<>>)

\* a fallback for endpoints so far apart that the transit duration is above
\* the floor of 25 and d / 300 is not whole, returned with a non-empty catalog
C25_Witness ==
  /\ FiniteEndpoints
  /\ busStops # <<>>
  /\ StraightLine % 300 # 0
  /\ \E r \in FallbacksReturned : r.segmentos[1].tempo > 25

\* the catalog stops within the search radius of a location, by index
Within(stop, location) ==
  /\ Has(stop, "coordinates")
  /\ Has(location, "coordinates")
  /\ calculateDistance(location.coordinates, stop.coordinates) <= SearchRadius
StopsWithin(location) == {i \in 1..Len(busStops) : Within(busStops[i], location)}
DistanceTo(i, location) == calculateDistance(location.coordinates, busStops[i].coordinates)

\* the nearest of them, the earliest in the catalog among equally near ones
Nearest(location) ==
  CHOOSE i \in StopsWithin(location) :
    \A j \in StopsWithin(location) :
      \/ DistanceTo(i, location) < DistanceTo(j, location)
      \/ (DistanceTo(i, location) = DistanceTo(j, location) /\ i <= j)

DirectProduced == direct.called /\ direct.returned # Null /\ direct.returned # Throw
StopsOnBothSides == StopsWithin(direct.origin) # {} /\ StopsWithin(direct.destination) # {}

DirectThrows ==
  \/ /\ busStops # <<>>
     /\ \/ ~Has(direct.origin, "coordinates")
        \/ ~Has(direct.destination, "coordinates")
        \/ \E i \in 1..Len(busStops) : ~Has(busStops[i], "coordinates")
  \/ /\ \A i \in 1..Len(busStops) : Has(busStops[i], "coordinates")
     /\ StopsOnBothSides
     /\ LET originStop == busStops[Nearest(direct.origin)]
            destinationStop == busStops[Nearest(direct.destination)]
        IN \/ ~Has(originStop, "lines")
           \/ (originStop.lines # <<>> /\ ~Has(destinationStop, "lines"))

EndpointsAreObjects == called /\ originLocation # Null /\ destinationLocation # Null

\* C27 (as claimed): when the search for a real route throws (a catalog
\* stop without coordinates or without a lines array) the call does not
\* reject and returns exactly one itinerary, the fallback; when the origin
\* or the destination has no coordinates the call returns the empty list.
C27_SearchFailureHandled ==
  EndpointsAreObjects =>
    /\ ( /\ FiniteEndpoints
         /\ calculateDirectRoute(originLocation, destinationLocation, busStops) = Throw )
       => ( /\ ~result.rejected
            /\ Len(Returned) = 1
            /\ IsFallback(Returned[1]) )
    /\ (~Has(originLocation, "coordinates") \/ ~Has(destinationLocation, "coordinates"))
       => (~result.rejected /\ Returned = <<>>)

\* C28: rotasAPI.calcularRotas never rejects because of a backend failure:
\* when the POST fails it returns what the local calculateRoutes(origem,
\* destino) returns; when the POST succeeds it returns response.data.rotas,
\* or the empty list when response.data has no rotas, and the local engine
\* is not called.
C28_BackendFallback ==
  (rotas.called /\ rotas.posted) =>
    IF rotas.outcome.failed
    THEN /\ rotas.local
         /\ ~rotas.returned.rejected
         /\ rotas.returned = calculateRoutes(rotas.origem, rotas.destino, snapshot)
    ELSE /\ ~rotas.local
         /\ ~rotas.returned.rejected
         /\ rotas.returned.routes =
              IF "rotas" \in DOMAIN rotas.outcome.data /\ rotas.outcome.data.rotas # Null
              THEN rotas.outcome.data.rotas.array
              ELSE <<>>

\* the POST failed and the caller got the fallback and a direct itinerary
\* from the local engine
C28_Witness ==
  /\ rotas.called /\ rotas.posted
  /\ rotas.outcome.failed
  /\ Len(rotas.returned.routes) = 2

\* C29 (as claimed): whenever SearchForm calls onSearch, the origem and the
\* destino it passes are location objects, not null, also on the submit in
\* which validateForm finds the typed name by exact match.
C29_SearchWithLocations ==
  searched.called => (searched.origem # Null /\ searched.destino # Null)

\* no debounce timeout is pending for the origin field and none of its
\* requests is in flight
OrigemSettled ==
  /\ ~timers["origem"]
  /\ \A request \in requests : request.field # "origem"

\* C30 (as claimed): once every autocomplete request of the origin field
\* has completed, the origin suggestion list is the one computed for the
\* text typed last: the answer to an older query never replaces the
\* suggestions of a newer one.
C30_LatestSuggestions ==
  (OrigemSettled /\ Len(form.origem) >= 2)
    => computedFor["origem"] = form.origem

====
